---- MODULE Spec2Model ----
(***************************************************************************)
(* A model of the group 7 negotiation agents: the frequency-based         *)
(* OpponentModel (agents/group7_agent/utils/opponent_model.py) and the     *)
(* accept / propose logic of TemplateAgent and TemplateAgent4.             *)
(*                                                                         *)
(* Real numbers (progress, utilities, weights) are fixed-point integers    *)
(* in thousandths: 1.0 is Scale.  Products and quotients round down.       *)
(* None is the empty sequence <<>>; an optional object is <<>> or <<x>>.   *)
(***************************************************************************)
EXTENDS Integers, Sequences, FiniteSets, TLC

----------------------------------------------------------------------------
(* Bounds of the model *)

\* offers of the opponent a TemplateAgent4 session receives
MaxOffers == 10

\* offers of the opponent a TemplateAgent session receives
MaxBaseOffers == 3

\* update calls made on a directly used OpponentModel
MaxUpdates == 5

\* offers received in a session whose clock shows a single value
MaxLongOffers == 12

\* update calls made on a directly used OpponentModel whose clock shows a
\* single value
MaxSamples == 7

----------------------------------------------------------------------------
(* Fixed-point arithmetic standing for Python floats / Decimals *)

Scale == 10 * 10 * 10

Mul(a, b) == (a * b) \div Scale

Div(a, b) == (a * Scale) \div b

Max2(a, b) == IF a >= b THEN a ELSE b

Min2(a, b) == IF a <= b THEN a ELSE b

Abs(a) == IF a >= 0 THEN a ELSE 0 - a

RECURSIVE SumSeq(_)
SumSeq(s) == IF s = <<>> THEN 0 ELSE Head(s) + SumSeq(Tail(s))

\* s[:k] and s[-k:] of Python
FirstK(s, k) == SubSeq(s, 1, Min2(k, Len(s)))

LastK(s, k) == SubSeq(s, Max2(1, Len(s) - k + 1), Len(s))

\* integer square root (Newton), used for the fractional powers
RECURSIVE ISqrtFrom(_, _)
ISqrtFrom(n, x) ==
    LET y == (x + n \div x) \div 2
    IN  IF y >= x THEN x ELSE ISqrtFrom(n, y)

ISqrt(n) == IF n = 0 THEN 0 ELSE ISqrtFrom(n, n)

SqrtFix(a) == ISqrt(a * Scale)

\* binary digits of the exponent used by Pow
ExpBits == 10

\* r ** (frac / Scale) for 0 <= frac < Scale, as a product of repeated
\* square roots of r, one per binary digit of the exponent
RECURSIVE PowBits(_, _, _, _)
PowBits(r, frac, acc, k) ==
    IF k = 0 \/ frac = 0 THEN acc
    ELSE LET r2 == SqrtFix(r)
             f2 == 2 * frac
         IN  IF f2 >= Scale
             THEN PowBits(r2, f2 - Scale, Mul(acc, r2), k - 1)
             ELSE PowBits(r2, f2, acc, k - 1)

\* x ** e for an integer x >= 1 and a fixed-point exponent 0 <= e <= 1
PowCompute(x, e) ==
    IF e >= Scale THEN x * Scale ELSE PowBits(x * Scale, e, Scale, ExpBits)

\* the powers of the bases a run can need (a count plus one), tabulated
PowTable ==
    [x \in 1 .. Max2(Max2(MaxOffers, MaxLongOffers), Max2(MaxUpdates, MaxSamples)) + 2 |->
        [e \in 0 .. Scale |-> PowCompute(x, e)]]

Pow(x, e) == PowTable[x][e]

\* p ** n for a fixed-point p in [0, 1] and a natural n
RECURSIVE PowInt(_, _)
PowInt(p, n) == IF n = 0 THEN Scale ELSE Mul(p, PowInt(p, n - 1))

----------------------------------------------------------------------------
(* Domain, bids *)

None == <<>>

\* a domain is the sequence of the sizes of its issues' value sets:
\* issue i has the values 1..dom[i]
Issues(dom) == 1 .. Len(dom)

RECURSIVE MaxSeq(_)
MaxSeq(s) == IF s = <<>> THEN 0 ELSE Max2(Head(s), MaxSeq(Tail(s)))

\* the complete bids of the domain: one value per issue
AllBidsList(dom) ==
    { b \in [Issues(dom) -> 1 .. MaxSeq(dom)] : \A i \in Issues(dom) : b[i] <= dom[i] }

----------------------------------------------------------------------------
(* ValueEstimator *)

ValueEstimator_init == [count |-> 0, utility |-> 0, last_time |-> 0]

ValueEstimator_update(vt, time) ==
    [vt EXCEPT !.count = vt.count + 1, !.last_time = time]

\* mutant: the time decay grows with the time since the value was last seen
recalculate_utility_growing(vt, max_value_count, weight, current_time) ==
    LET time_decay == Scale + (current_time - vt.last_time)
        mod_value_count == Pow(vt.count + 1, Scale - weight) - Scale
        mod_max_value_count == Pow(max_value_count + 1, Scale - weight) - Scale
    IN  IF weight < Scale
        THEN [vt EXCEPT !.utility =
                 Mul(Div(mod_value_count, mod_max_value_count), time_decay)]
        ELSE [vt EXCEPT !.utility = Scale]

ValueEstimator_recalculate_utility(vt, max_value_count, weight, current_time) ==
    LET time_decay == Div(Scale, Scale + (current_time - vt.last_time))
        mod_value_count == Pow(vt.count + 1, Scale - weight) - Scale
        mod_max_value_count == Pow(max_value_count + 1, Scale - weight) - Scale
    IN  IF weight < Scale
        THEN [vt EXCEPT !.utility =
                 Mul(Div(mod_value_count, mod_max_value_count), time_decay)]
        ELSE [vt EXCEPT !.utility = Scale]

----------------------------------------------------------------------------
(* IssueEstimator *)

IssueEstimator_init(num_values) ==
    [bids_received |-> 0, max_value_count |-> 0, num_values |-> num_values,
     value_trackers |-> <<>>, weight |-> 0, time_series |-> <<>>]

\* value_trackers[value] and time_series[value] of a defaultdict
Tracker(est, value) ==
    IF value \in DOMAIN est.value_trackers
    THEN est.value_trackers[value] ELSE ValueEstimator_init

Series(est, value) ==
    IF value \in DOMAIN est.time_series THEN est.time_series[value] ELSE <<>>

\* time span of the 3 most recent timestamps above which the weight is damped
DampingSpan == 300

DampingFactor == 900

\* mutant: the weight measures the spread of the values, not their concentration
IssueEstimator_update_inverted(est, value, time) ==
    LET bids_received == est.bids_received + 1
        value_tracker == ValueEstimator_update(Tracker(est, value), time)
        trackers1 == [v \in DOMAIN est.value_trackers \cup {value} |->
                        IF v = value THEN value_tracker ELSE est.value_trackers[v]]
        max_value_count == Max2(value_tracker.count, est.max_value_count)
        equal_shares == Div(bids_received, est.num_values)
        denominator == bids_received * Scale - equal_shares
        weight == Scale - Div(max_value_count * Scale - equal_shares, denominator)
        trackers2 == [v \in DOMAIN trackers1 |->
                        ValueEstimator_recalculate_utility(
                            trackers1[v], max_value_count, weight, time)]
        series == [v \in DOMAIN est.time_series \cup {value} |->
                        IF v = value THEN Append(Series(est, value), time)
                        ELSE est.time_series[v]]
        recent_times == LastK(series[value], 3)
        time_diff == recent_times[Len(recent_times)] - recent_times[1]
        damped == Len(recent_times) >= 2 /\ time_diff > DampingSpan
    IN  IF denominator = 0
        THEN [est |-> [est EXCEPT !.bids_received = bids_received,
                                  !.value_trackers = trackers1,
                                  !.max_value_count = max_value_count],
              raised |-> TRUE]
        ELSE [est |-> [bids_received |-> bids_received,
                       max_value_count |-> max_value_count,
                       num_values |-> est.num_values,
                       value_trackers |-> trackers2,
                       weight |-> IF damped THEN Mul(weight, DampingFactor) ELSE weight,
                       time_series |-> series],
              raised |-> FALSE]

\* IssueEstimator.update: the estimator after the call, and whether the
\* call raised ZeroDivisionError at the weight formula (the assignments made
\* before the raise are kept)
IssueEstimator_update(est, value, time) ==
    LET bids_received == est.bids_received + 1
        value_tracker == ValueEstimator_update(Tracker(est, value), time)
        trackers1 == [v \in DOMAIN est.value_trackers \cup {value} |->
                        IF v = value THEN value_tracker ELSE est.value_trackers[v]]
        max_value_count == Max2(value_tracker.count, est.max_value_count)
        equal_shares == Div(bids_received, est.num_values)
        denominator == bids_received * Scale - equal_shares
        weight == Div(max_value_count * Scale - equal_shares, denominator)
        trackers2 == [v \in DOMAIN trackers1 |->
                        ValueEstimator_recalculate_utility(
                            trackers1[v], max_value_count, weight, time)]
        series == [v \in DOMAIN est.time_series \cup {value} |->
                        IF v = value THEN Append(Series(est, value), time)
                        ELSE est.time_series[v]]
        recent_times == LastK(series[value], 3)
        time_diff == recent_times[Len(recent_times)] - recent_times[1]
        damped == Len(recent_times) >= 2 /\ time_diff > DampingSpan
    IN  IF denominator = 0
        THEN [est |-> [est EXCEPT !.bids_received = bids_received,
                                  !.value_trackers = trackers1,
                                  !.max_value_count = max_value_count],
              raised |-> TRUE]
        ELSE [est |-> [bids_received |-> bids_received,
                       max_value_count |-> max_value_count,
                       num_values |-> est.num_values,
                       value_trackers |-> trackers2,
                       weight |-> IF damped THEN Mul(weight, DampingFactor) ELSE weight,
                       time_series |-> series],
              raised |-> FALSE]

IssueEstimator_get_value_utility(est, value) ==
    IF value \in DOMAIN est.value_trackers
    THEN est.value_trackers[value].utility ELSE 0

----------------------------------------------------------------------------
(* OpponentModel *)

OpponentModel_init(dom) ==
    [offers |-> <<>>,
     consistency_score |-> 0,
     issue_estimators |-> [i \in Issues(dom) |-> IssueEstimator_init(dom[i])],
     my_utilities |-> <<>>,
     is_conceder |-> FALSE,
     is_stubborn |-> FALSE,
     in_deadlock |-> FALSE,
     late_utilities |-> <<>>,
     final_utilities |-> <<>>,
     is_late_conceder |-> FALSE]

\* mutant: the number of matching issues is not divided by the issue count
calculate_similarity_undivided(bid1, bid2) ==
    Cardinality({i \in DOMAIN bid1 : bid1[i] = bid2[i]}) * Scale

calculate_similarity(bid1, bid2) ==
    Div(Cardinality({i \in DOMAIN bid1 : bid1[i] = bid2[i]}), Len(bid1))

\* default arguments of the classifiers, in thousandths where they are reals
ConcederWindow == 5

ConcederThreshold == 200

LateConcederThreshold == 50

BoulwareWindow == 5

BoulwareThreshold == 100

HardlinerWindow == 5

HardlinerThreshold == 50

DeadlockWindow == 6

DeadlockThreshold == 10

\* start and end of the "late" window of progress
LateFrom == 850

FinalFrom == 950

\* window * (recent average - early average) of the self-utility series
WindowDelta(us, window) == SumSeq(LastK(us, window)) - SumSeq(FirstK(us, window))

detect_conceder(m) ==
    IF Len(m.my_utilities) >= 2 * ConcederWindow
       /\ WindowDelta(m.my_utilities, ConcederWindow) >= ConcederThreshold * ConcederWindow
    THEN [m EXCEPT !.is_conceder = TRUE] ELSE m

\* avg_final - avg_late > threshold, with both sides multiplied by the two lengths
detect_late_conceder(m) ==
    LET nl == Len(m.late_utilities)
        nf == Len(m.final_utilities)
    IN  IF nl >= 2 /\ nf >= 2
           /\ SumSeq(m.final_utilities) * nl - SumSeq(m.late_utilities) * nf
                  > LateConcederThreshold * nl * nf
        THEN [m EXCEPT !.is_late_conceder = TRUE] ELSE m

\* mutant: the slight-concession test stops at the hardliner's threshold
detect_boulware_narrow(m) ==
    LET delta == WindowDelta(m.my_utilities, BoulwareWindow)
    IN  IF Len(m.my_utilities) >= 2 * BoulwareWindow
           /\ 0 < delta /\ delta < HardlinerThreshold * BoulwareWindow
        THEN [m EXCEPT !.is_stubborn = TRUE] ELSE m

detect_boulware(m) ==
    LET delta == WindowDelta(m.my_utilities, BoulwareWindow)
    IN  IF Len(m.my_utilities) >= 2 * BoulwareWindow
           /\ 0 < delta /\ delta < BoulwareThreshold * BoulwareWindow
        THEN [m EXCEPT !.is_stubborn = TRUE] ELSE m

detect_hardliner(m) ==
    IF Len(m.my_utilities) >= 2 * HardlinerWindow
       /\ WindowDelta(m.my_utilities, HardlinerWindow) < HardlinerThreshold * HardlinerWindow
    THEN [m EXCEPT !.is_stubborn = TRUE] ELSE m

\* mutant: the flag follows the last window instead of staying set
detect_deadlock_unsticky(m) ==
    LET recent == LastK(m.my_utilities, DeadlockWindow)
    IN  [m EXCEPT !.in_deadlock =
            Len(m.my_utilities) >= DeadlockWindow
            /\ \A i \in 2 .. Len(recent) : Abs(recent[i] - recent[i - 1]) < DeadlockThreshold]

\* mutant: a difference equal to the threshold counts as no change
detect_deadlock_inclusive(m) ==
    LET recent == LastK(m.my_utilities, DeadlockWindow)
    IN  IF Len(m.my_utilities) >= DeadlockWindow
           /\ \A i \in 2 .. Len(recent) : Abs(recent[i] - recent[i - 1]) <= DeadlockThreshold
        THEN [m EXCEPT !.in_deadlock = TRUE] ELSE m

detect_deadlock(m) ==
    LET recent == LastK(m.my_utilities, DeadlockWindow)
    IN  IF Len(m.my_utilities) >= DeadlockWindow
           /\ \A i \in 2 .. Len(recent) : Abs(recent[i] - recent[i - 1]) < DeadlockThreshold
        THEN [m EXCEPT !.in_deadlock = TRUE] ELSE m

\* the five classifiers in the order update() runs them
detect_all(m) ==
    detect_deadlock(detect_hardliner(detect_boulware(detect_conceder(
        detect_late_conceder(m)))))

\* lines 36-48 of update(): profile is <<>> when our_utility_func is not given,
\* otherwise <<f>> with f the self-utility of every bid
record_utility(m, bid, time, profile) ==
    IF profile = None THEN m
    ELSE LET u == profile[1][bid]
             m1 == [m EXCEPT !.my_utilities = Append(@, u)]
             m2 == IF LateFrom <= time /\ time < FinalFrom
                   THEN [m1 EXCEPT !.late_utilities = Append(@, u)]
                   ELSE IF time >= FinalFrom
                        THEN [m1 EXCEPT !.final_utilities = Append(@, u)]
                        ELSE m1
         IN  detect_all(m2)

\* the loop over the issue estimators: it stops at the first one that raises
update_estimators(ests, bid, time) ==
    LET r == [i \in DOMAIN ests |-> IssueEstimator_update(ests[i], bid[i], time)]
        failing == {i \in DOMAIN ests : r[i].raised}
        stop == IF failing = {} THEN Len(ests) + 1
                ELSE CHOOSE i \in failing : \A j \in failing : i <= j
    IN  [ests |-> [i \in DOMAIN ests |-> IF i <= stop THEN r[i].est ELSE ests[i]],
         raised |-> failing # {}]

\* OpponentModel.update: the model after the call, and whether it raised
OpponentModel_update(m, bid, time, profile) ==
    LET m1 == IF m.offers # <<>>
              THEN [m EXCEPT !.consistency_score =
                       @ + calculate_similarity(m.offers[Len(m.offers)], bid)]
              ELSE m
        m2 == [m1 EXCEPT !.offers = Append(@, bid)]
        m3 == record_utility(m2, bid, time, profile)
        u  == update_estimators(m3.issue_estimators, bid, time)
    IN  [om |-> [m3 EXCEPT !.issue_estimators = u.ests], raised |-> u.raised]

get_predicted_utility(m, bid) ==
    IF Len(m.offers) = 0 \/ bid = None THEN 0
    ELSE LET ests == m.issue_estimators
             value_utilities ==
                 [i \in DOMAIN ests |-> IssueEstimator_get_value_utility(ests[i], bid[i])]
             total_issue_weight == SumSeq([i \in DOMAIN ests |-> ests[i].weight])
             issue_weights ==
                 [i \in DOMAIN ests |->
                     IF total_issue_weight = 0 THEN Div(1, Len(ests))
                     ELSE Div(ests[i].weight, total_issue_weight)]
         IN  SumSeq([i \in DOMAIN ests |-> Mul(issue_weights[i], value_utilities[i])])

\* str(value): the key a value gets in the exported record
StrOf(v) == <<"value", v>>

\* the exported record: value_counts holds the counts of the tracked values
to_json(m) ==
    [is_conceder |-> m.is_conceder,
     issue_weights |->
        [i \in DOMAIN m.issue_estimators |->
            [weight |-> m.issue_estimators[i].weight,
             value_counts |->
                [k \in {StrOf(v) : v \in DOMAIN m.issue_estimators[i].value_trackers} |->
                    m.issue_estimators[i].value_trackers[k[2]].count]]]]

\* mutant: the imported flag is stored in the wrong field
load_from_json_wrong_flag(m, data) ==
    [m EXCEPT !.is_stubborn = data.is_conceder]

\* load_from_json: data.issue_weights is a function from issue keys to
\* [weight, value_counts]; a count is stored only for a value that is
\* already a key of value_trackers
load_from_json(m, data) ==
    [m EXCEPT
        !.is_conceder = data.is_conceder,
        !.issue_estimators =
            [i \in DOMAIN m.issue_estimators |->
                IF i \notin DOMAIN data.issue_weights THEN m.issue_estimators[i]
                ELSE LET est == m.issue_estimators[i]
                         d == data.issue_weights[i]
                     IN  [est EXCEPT
                            !.weight = d.weight,
                            !.value_trackers =
                                [v \in DOMAIN est.value_trackers |->
                                    IF StrOf(v) \in DOMAIN d.value_counts
                                    THEN [est.value_trackers[v] EXCEPT
                                             !.count = d.value_counts[StrOf(v)]]
                                    ELSE est.value_trackers[v]]]]]

----------------------------------------------------------------------------
(* Bidding strategy shared by TemplateAgent and TemplateAgent4 *)

\* 1 / beta for the default beta = 0.2
InvBeta == 5

get_target_utility(progress) == Scale - PowInt(progress, InvBeta)

AlphaStart == 950

AlphaEnd == 500

\* 1 / eps for the default eps = 0.1
InvEps == 10

\* model is the agent's opponent_model field: <<>> or <<m>>
score_bid(model, profile, bid, progress) ==
    LET alpha == AlphaStart - Mul(AlphaStart - AlphaEnd, progress)
        our_utility == profile[bid]
        time_pressure == Scale - PowInt(progress, InvEps)
        score == Mul(Mul(alpha, time_pressure), our_utility)
    IN  IF model # None
        THEN score + Mul(Mul(Scale - alpha, time_pressure),
                         get_predicted_utility(model[1], bid))
        ELSE score

\* the sets of distinct bids that 1000 random draws can produce
Samples(dom) == (SUBSET AllBidsList(dom)) \ {{}}

\* the results max(bids, key) can give over the orders of the sample list
ArgMax(bids, Key(_)) == {b \in bids : \A c \in bids : Key(c) <= Key(b)}

\* a call's outcome: a returned value, or an exception
Returned(v) == [ok |-> TRUE, value |-> v]

Raised == [ok |-> FALSE, value |-> <<>>]

Margin == 50

ReservationBase == 600

ReservationSlope == 400

PlannedFactor == 850

----------------------------------------------------------------------------
(* TemplateAgent (agents/group7_agent) *)

TemplateAgent_find_bid(model, profile, dom, progress) ==
    LET target_util == get_target_utility(progress)
        Candidates(S) == {b \in S : Abs(profile[b] - target_util) <= Margin}
        Score(b) == score_bid(model, profile, b, progress)
    IN  UNION { IF Candidates(S) = {}
                THEN {Returned(b) : b \in AllBidsList(dom)}
                ELSE {Returned(b) : b \in ArgMax(Candidates(S), Score)}
              : S \in Samples(dom) }

TemplateAgent_accept_condition(bid, model, profile, dom, progress) ==
    IF bid = None THEN {Returned(FALSE)}
    ELSE LET my_util == profile[bid]
             target_util == get_target_utility(progress)
             reservation_threshold == ReservationBase - Mul(ReservationSlope, progress)
             Decide(planned_util) ==
                 IF my_util < reservation_threshold THEN FALSE
                 ELSE my_util >= Max2(target_util, Mul(PlannedFactor, planned_util))
         IN  { IF planned.ok THEN Returned(Decide(profile[planned.value])) ELSE Raised
               : planned \in TemplateAgent_find_bid(model, profile, dom, progress) }

----------------------------------------------------------------------------
(* TemplateAgent4 (agents/group7_agent4) *)

ConcederBonus == 50

StubbornDiscount == 50

StubbornFloor == 700

DeadlockDiscount == 100

DeadlockFloor == 550

DeadlockMargin == 100

FallbackFloor == 600

\* mutant: the stubborn adjustment is applied after the conceder adjustment
\* instead of in its place
search_target_sequential(model, progress) ==
    LET has == model # None
        base == get_target_utility(progress)
        greedy == IF has /\ model[1].is_conceder THEN Min2(base + ConcederBonus, Scale)
                  ELSE base
        adjusted == IF has /\ model[1].is_stubborn
                    THEN Max2(greedy - StubbornDiscount, StubbornFloor)
                    ELSE greedy
    IN  IF has /\ model[1].in_deadlock
        THEN Max2(DeadlockFloor, adjusted - DeadlockDiscount)
        ELSE adjusted

\* lines 271-283 of find_bid: the target utility and the margin of the search
search_target(model, progress) ==
    LET has == model # None
        base == get_target_utility(progress)
        adjusted == IF has /\ model[1].is_conceder THEN Min2(base + ConcederBonus, Scale)
                    ELSE IF has /\ model[1].is_stubborn
                         THEN Max2(base - StubbornDiscount, StubbornFloor)
                         ELSE base
    IN  IF has /\ model[1].in_deadlock
        THEN Max2(DeadlockFloor, adjusted - DeadlockDiscount)
        ELSE adjusted

search_margin(model) ==
    IF model # None /\ model[1].in_deadlock THEN DeadlockMargin ELSE Margin

\* mutant: max() is applied to the fallback list even when it is empty
fallback_result_unchecked(model, profile, dom, S) ==
    LET fallback_bids == {b \in S : profile[b] >= FallbackFloor}
        Predicted(b) == get_predicted_utility(model[1], b)
    IN  IF fallback_bids # {}
        THEN {Returned(b) : b \in ArgMax(fallback_bids, Predicted)}
        ELSE {Raised}

\* lines 304-307: the result once the fallback list is built from the sample S
fallback_result(model, profile, dom, S) ==
    LET fallback_bids == {b \in S : profile[b] >= FallbackFloor}
        Predicted(b) == get_predicted_utility(model[1], b)
    IN  IF fallback_bids # {}
        THEN IF model # None
             THEN {Returned(b) : b \in ArgMax(fallback_bids, Predicted)}
             ELSE {Raised}
        ELSE {Returned(b) : b \in AllBidsList(dom)}

\* mutant: the fallback is taken only when no candidate was found
find_bid_sampled_candidates_first(model, profile, dom, progress, S, S2) ==
    LET target_util == search_target(model, progress)
        margin == search_margin(model)
        candidate_bids == {b \in S : Abs(profile[b] - target_util) <= margin}
        Score(b) == score_bid(model, profile, b, progress)
    IN  IF candidate_bids = {}
        THEN fallback_result(model, profile, dom, S2)
        ELSE {Returned(b) : b \in ArgMax(candidate_bids, Score)}

\* mutant: the best-scored bid of the whole sample is returned, candidate or
\* not
find_bid_sampled_unfiltered(model, profile, dom, progress, S, S2) ==
    LET target_util == search_target(model, progress)
        margin == search_margin(model)
        deadlock == model # None /\ model[1].in_deadlock
        candidate_bids == {b \in S : Abs(profile[b] - target_util) <= margin}
        Score(b) == score_bid(model, profile, b, progress)
    IN  IF candidate_bids = {} \/ deadlock
        THEN fallback_result(model, profile, dom, S2)
        ELSE {Returned(b) : b \in ArgMax(S, Score)}

\* find_bid once the random draws are made: S holds the bids of the first
\* 1000 draws and S2 those of the second 1000, made on the fallback path
find_bid_sampled(model, profile, dom, progress, S, S2) ==
    LET target_util == search_target(model, progress)
        margin == search_margin(model)
        deadlock == model # None /\ model[1].in_deadlock
        candidate_bids == {b \in S : Abs(profile[b] - target_util) <= margin}
        Score(b) == score_bid(model, profile, b, progress)
    IN  IF candidate_bids = {} \/ deadlock
        THEN fallback_result(model, profile, dom, S2)
        ELSE {Returned(b) : b \in ArgMax(candidate_bids, Score)}

TemplateAgent4_find_bid(model, profile, dom, progress) ==
    UNION { find_bid_sampled(model, profile, dom, progress, S, S2)
            : S \in Samples(dom), S2 \in Samples(dom) }

OverrideProgress == 900

OverrideFloor == 300

ConcederFactor == 950

ReservationBonus == 50

\* the flags under which the deadlock override is considered (lines 247-248)
deadlock_override(model) ==
    model # None /\ model[1].in_deadlock /\ model[1].is_stubborn
        /\ ~model[1].is_late_conceder

\* lines 239-243
reservation_threshold(model, progress) ==
    ReservationBase - Mul(ReservationSlope, progress)
        + (IF model # None /\ model[1].is_conceder THEN ReservationBonus ELSE 0)

\* mutant: steps 4-5 alone, without the deadlock override
accept_decision_no_override(model, progress, my_util, target_util, planned_util) ==
    IF my_util < reservation_threshold(model, progress) THEN FALSE
    ELSE IF model # None /\ model[1].is_conceder
         THEN my_util >= Mul(ConcederFactor, planned_util)
         ELSE my_util >= Max2(target_util, Mul(PlannedFactor, planned_util))

\* mutant: the conceder is treated like any other opponent
accept_decision_no_conceder(model, progress, my_util, target_util, planned_util) ==
    IF deadlock_override(model) /\ progress > OverrideProgress
    THEN my_util >= OverrideFloor
    ELSE IF my_util < reservation_threshold(model, progress) THEN FALSE
    ELSE my_util >= Max2(target_util, Mul(PlannedFactor, planned_util))

\* mutant: the reservation threshold is not enforced
accept_decision_no_reservation(model, progress, my_util, target_util, planned_util) ==
    IF deadlock_override(model) /\ progress > OverrideProgress
    THEN my_util >= OverrideFloor
    ELSE IF model # None /\ model[1].is_conceder
         THEN my_util >= Mul(ConcederFactor, planned_util)
         ELSE my_util >= Max2(target_util, Mul(PlannedFactor, planned_util))

\* lines 247-264: the decision once my_util, target_util and planned_util are known
accept_decision(model, progress, my_util, target_util, planned_util) ==
    IF deadlock_override(model) /\ progress > OverrideProgress
    THEN my_util >= OverrideFloor
    ELSE IF my_util < reservation_threshold(model, progress) THEN FALSE
    ELSE IF model # None /\ model[1].is_conceder
         THEN my_util >= Mul(ConcederFactor, planned_util)
         ELSE my_util >= Max2(target_util, Mul(PlannedFactor, planned_util))

\* mutant: no test for an undefined bid, whose utility cannot be evaluated
accept_condition_unguarded(bid, model, profile, dom, progress) ==
    IF bid = None THEN {Raised}
    ELSE { IF planned.ok
           THEN Returned(accept_decision(model, progress, profile[bid],
                             get_target_utility(progress), profile[planned.value]))
           ELSE Raised
           : planned \in TemplateAgent4_find_bid(model, profile, dom, progress) }

TemplateAgent4_accept_condition(bid, model, profile, dom, progress) ==
    IF bid = None THEN {Returned(FALSE)}
    ELSE { IF planned.ok
           THEN Returned(accept_decision(model, progress, profile[bid],
                             get_target_utility(progress), profile[planned.value]))
           ELSE Raised
           : planned \in TemplateAgent4_find_bid(model, profile, dom, progress) }

----------------------------------------------------------------------------
(* State *)

VARIABLES
    agent,              \* the class under execution
    domain,             \* the session's domain (sizes of the issues' value sets)
    profile,            \* the session's profile: self-utility of every bid
    times,              \* the progress values the clock can show when read
    pc,                 \* "new", "running", "terminated", "crashed"; "api" for direct use
    clock,              \* the last progress value read
    opponent_model,     \* self.opponent_model: <<>> or <<m>>
    last_received_bid,  \* self.last_received_bid: a bid or <<>>
    other,              \* self.other: <<>> or <<name>>
    sent,               \* the action handed to the connection and not yet delivered
    turn,               \* whose move the protocol awaits: "me", "opp", "over"
    storage,            \* the files of storage_dir
    loaded              \* the model built by an import of an export: <<>> or <<m>>

vars == <<agent, domain, profile, times, pc, clock, opponent_model,
          last_received_bid, other, sent, turn, storage, loaded>>

config == <<agent, domain, profile, times>>

\* party ids are name_position
Me == [name |-> "group7", position |-> 1]

Opponent == [name |-> "opponent", position |-> 2]

\* str(actor).rsplit("_", 1)[0]
BaseName(actor) == actor.name

NoAction == [type |-> "None", bid |-> None]

Accept(bid) == [type |-> "Accept", bid |-> bid]

Offer(bid) == [type |-> "Offer", bid |-> bid]

NoStorage == [model |-> <<>>, data_md |-> <<>>]

\* self-utilities of the two bids of a one-issue, two-value domain
Profile2(u1, u2) == [b \in AllBidsList(<<2>>) |-> IF b[1] = 1 THEN u1 ELSE u2]

\* the model after the update calls of a whole session: calls is a sequence
\* of <<bid, time>>
RECURSIVE Replay(_, _, _)
Replay(m, calls, fn) ==
    IF calls = <<>> THEN m
    ELSE LET r == OpponentModel_update(m, Head(calls)[1], Head(calls)[2], fn)
         IN  IF r.raised THEN r.om ELSE Replay(r.om, Tail(calls), fn)

\* an earlier session in which the opponent moved from the bid worth 0.25 to
\* the bid worth 0.7, and the record that session exported
ConcedingSession ==
    [k \in 1 .. 10 |-> << <<(IF k <= 4 THEN 1 ELSE 2)>>, 500 >>]

ConcedingRecord ==
    to_json(Replay(OpponentModel_init(<<2>>), ConcedingSession, <<Profile2(250, 700)>>))

\* stored: the record of the counterpart found in storage_dir, if any, left
\* there by an earlier session
Scenarios ==
    { [agent |-> "TemplateAgent4", domain |-> <<2>>, profile |-> Profile2(250, 700),
       times |-> {500, 900, 950}, stored |-> <<>>],
      [agent |-> "TemplateAgent4", domain |-> <<1>>, profile |-> [b \in AllBidsList(<<1>>) |-> 500],
       times |-> {0, 1000}, stored |-> <<>>],
      [agent |-> "TemplateAgent4", domain |-> <<2>>, profile |-> Profile2(250, 700),
       times |-> {500}, stored |-> <<ConcedingRecord>>],
      [agent |-> "TemplateAgent4", domain |-> <<2>>, profile |-> Profile2(950, 945),
       times |-> {500}, stored |-> <<>>],
      [agent |-> "TemplateAgent", domain |-> <<2>>, profile |-> Profile2(250, 700),
       times |-> {0, 800, 1000}, stored |-> <<>>] }

Init ==
    /\ \E sc \in Scenarios :
          /\ agent = sc.agent
          /\ domain = sc.domain
          /\ profile = sc.profile
          /\ times = sc.times
          /\ storage = [NoStorage EXCEPT !.model = sc.stored]
    /\ pc = "new"
    /\ clock = 0
    /\ opponent_model = None
    /\ last_received_bid = None
    /\ other = None
    /\ sent = NoAction
    /\ turn \in {"me", "opp"}
    /\ loaded = None

\* the readings the clock can give now
Readings == {t \in times : t >= clock}

\* the number of offers a session is followed for: more when the clock
\* shows a single value
OffersCap == IF Cardinality(times) = 1 THEN MaxLongOffers ELSE MaxOffers

----------------------------------------------------------------------------
(* TemplateAgent4.notifyChange *)

T4_Settings ==
    /\ agent = "TemplateAgent4" /\ pc = "new"
    /\ pc' = "running"
    /\ opponent_model' = IF opponent_model = None
                         THEN <<OpponentModel_init(domain)>> ELSE opponent_model
    /\ UNCHANGED <<config, clock, last_received_bid, other, sent, turn, storage, loaded>>

\* load_opponent_model: the model after the import of the counterpart's
\* record, if storage_dir holds one
load_opponent_model(m) ==
    IF storage.model # <<>> THEN load_from_json(m, storage.model[1]) ELSE m

\* opponent_action for an Offer: the agent's fields after the call
T4_opponent_action(bid, t) ==
    LET m == IF opponent_model = None
             THEN load_opponent_model(OpponentModel_init(domain))
             ELSE opponent_model[1]
        r == OpponentModel_update(m, bid, t, <<profile>>)
    IN  /\ opponent_model' = <<r.om>>
        /\ IF r.raised
           THEN pc' = "crashed" /\ UNCHANGED last_received_bid
           ELSE pc' = pc /\ last_received_bid' = bid

\* ActionDone with an Offer of the opponent
T4_ActionDoneOffer ==
    /\ agent = "TemplateAgent4" /\ pc = "running" /\ turn = "opp"
    /\ Len(opponent_model[1].offers) < OffersCap
    /\ \E bid \in AllBidsList(domain), t \in Readings :
          /\ clock' = t
          /\ other' = <<BaseName(Opponent)>>
          /\ T4_opponent_action(bid, t)
    /\ sent' = NoAction
    /\ turn' = "me"
    /\ UNCHANGED <<config, storage, loaded>>

\* ActionDone with an Accept of the opponent, or with the agent's own action
T4_ActionDoneOther ==
    /\ agent = "TemplateAgent4" /\ pc = "running"
    /\ \/ /\ turn = "opp" /\ sent.type = "Offer"
          /\ other' = <<BaseName(Opponent)>>
          /\ turn' = "over"
          /\ sent' = NoAction
       \/ /\ sent.type # "None"
          /\ UNCHANGED <<other, turn, sent>>
    /\ UNCHANGED <<config, pc, clock, opponent_model, last_received_bid, storage, loaded>>

\* mutant: the outcome of accept_condition is inverted
T4_my_turn_inverted(t) ==
    LET accepts == TemplateAgent4_accept_condition(
                       last_received_bid, opponent_model, profile, domain, t)
        bids == TemplateAgent4_find_bid(opponent_model, profile, domain, t)
    IN  {Returned(Accept(last_received_bid)) : a \in {a \in accepts : a.ok /\ ~a.value}}
        \cup {IF b.ok THEN Returned(Offer(b.value)) ELSE Raised
                : b \in {b \in bids : Returned(TRUE) \in accepts}}
        \cup {Raised : a \in {a \in accepts : ~a.ok}}

\* my_turn: the actions it can send, or Raised
T4_my_turn(t) ==
    LET accepts == TemplateAgent4_accept_condition(
                       last_received_bid, opponent_model, profile, domain, t)
        bids == TemplateAgent4_find_bid(opponent_model, profile, domain, t)
    IN  {Returned(Accept(last_received_bid)) : a \in {a \in accepts : a.ok /\ a.value}}
        \cup {IF b.ok THEN Returned(Offer(b.value)) ELSE Raised
                : b \in {b \in bids : Returned(FALSE) \in accepts}}
        \cup {Raised : a \in {a \in accepts : ~a.ok}}

T4_YourTurn ==
    /\ agent = "TemplateAgent4" /\ pc = "running" /\ turn = "me"
    /\ \E t \in Readings : \E out \in T4_my_turn(t) :
          /\ clock' = t
          /\ IF out.ok
             THEN /\ sent' = out.value
                  /\ turn' = IF out.value.type = "Accept" THEN "over" ELSE "opp"
                  /\ pc' = pc
             ELSE pc' = "crashed" /\ UNCHANGED <<sent, turn>>
    /\ UNCHANGED <<config, opponent_model, last_received_bid, other, storage, loaded>>

\* save_data
T4_save_data ==
    IF other # None /\ opponent_model # None
    THEN [storage EXCEPT !.model = <<to_json(opponent_model[1])>>]
    ELSE storage

\* Finished: sent by the protocol at an agreement or at the deadline
T4_Finished ==
    /\ agent = "TemplateAgent4" /\ pc = "running"
    /\ turn = "over" \/ clock >= Scale
    /\ storage' = T4_save_data
    /\ pc' = "terminated"
    /\ UNCHANGED <<config, clock, opponent_model, last_received_bid, other, sent, turn, loaded>>

----------------------------------------------------------------------------
(* TemplateAgent.notifyChange *)

TA_Settings ==
    /\ agent = "TemplateAgent" /\ pc = "new"
    /\ pc' = "running"
    /\ UNCHANGED <<config, clock, opponent_model, last_received_bid, other, sent,
                   turn, storage, loaded>>

\* opponent_action for an Offer: the model is created on the first one and
\* updated without a self-utility function
TA_opponent_action(bid, t) ==
    LET m == IF opponent_model = None THEN OpponentModel_init(domain)
             ELSE opponent_model[1]
        r == OpponentModel_update(m, bid, t, None)
    IN  /\ opponent_model' = <<r.om>>
        /\ IF r.raised
           THEN pc' = "crashed" /\ UNCHANGED last_received_bid
           ELSE pc' = pc /\ last_received_bid' = bid

TA_ActionDoneOffer ==
    /\ agent = "TemplateAgent" /\ pc = "running" /\ turn = "opp"
    /\ opponent_model # None => Len(opponent_model[1].offers) < MaxBaseOffers
    /\ \E bid \in AllBidsList(domain), t \in Readings :
          /\ clock' = t
          /\ other' = <<BaseName(Opponent)>>
          /\ TA_opponent_action(bid, t)
    /\ sent' = NoAction
    /\ turn' = "me"
    /\ UNCHANGED <<config, storage, loaded>>

TA_ActionDoneOther ==
    /\ agent = "TemplateAgent" /\ pc = "running"
    /\ \/ /\ turn = "opp" /\ sent.type = "Offer"
          /\ other' = <<BaseName(Opponent)>>
          /\ turn' = "over"
          /\ sent' = NoAction
       \/ /\ sent.type # "None"
          /\ UNCHANGED <<other, turn, sent>>
    /\ UNCHANGED <<config, pc, clock, opponent_model, last_received_bid, storage, loaded>>

TA_my_turn(t) ==
    LET accepts == TemplateAgent_accept_condition(
                       last_received_bid, opponent_model, profile, domain, t)
        bids == TemplateAgent_find_bid(opponent_model, profile, domain, t)
    IN  {Returned(Accept(last_received_bid)) : a \in {a \in accepts : a.ok /\ a.value}}
        \cup {IF b.ok THEN Returned(Offer(b.value)) ELSE Raised
                : b \in {b \in bids : Returned(FALSE) \in accepts}}
        \cup {Raised : a \in {a \in accepts : ~a.ok}}

TA_YourTurn ==
    /\ agent = "TemplateAgent" /\ pc = "running" /\ turn = "me"
    /\ \E t \in Readings : \E out \in TA_my_turn(t) :
          /\ clock' = t
          /\ IF out.ok
             THEN /\ sent' = out.value
                  /\ turn' = IF out.value.type = "Accept" THEN "over" ELSE "opp"
                  /\ pc' = pc
             ELSE pc' = "crashed" /\ UNCHANGED <<sent, turn>>
    /\ UNCHANGED <<config, opponent_model, last_received_bid, other, storage, loaded>>

TA_Finished ==
    /\ agent = "TemplateAgent" /\ pc = "running"
    /\ turn = "over" \/ clock >= Scale
    /\ storage' = [storage EXCEPT !.data_md = <<"Data for learning (see README.md)">>]
    /\ pc' = "terminated"
    /\ UNCHANGED <<config, clock, opponent_model, last_received_bid, other, sent, turn, loaded>>

Next ==
    \/ T4_Settings
    \/ T4_ActionDoneOffer
    \/ T4_ActionDoneOther
    \/ T4_YourTurn
    \/ T4_Finished
    \/ TA_Settings
    \/ TA_ActionDoneOffer
    \/ TA_ActionDoneOther
    \/ TA_YourTurn
    \/ TA_Finished

Spec == Init /\ [][Next]_vars

----------------------------------------------------------------------------
(* Direct use of an OpponentModel: update calls with non-decreasing progress, *)
(* then an export that is imported into a freshly constructed model          *)

Uniform(dom, u) == [b \in AllBidsList(dom) |-> u]

\* a stored record that names an issue (7) and a value (9) the domain <<2, 2>>
\* does not have, and has no entry for issue 2
PartialRecord ==
    [is_conceder |-> FALSE,
     issue_weights |->
        (1 :> [weight |-> 400, value_counts |-> (StrOf(1) :> 3 @@ StrOf(9) :> 2)])
        @@ (7 :> [weight |-> 800, value_counts |-> (StrOf(1) :> 1)])]

\* self-utilities of the three bids of a one-issue, three-value domain that
\* differ by less than, by exactly and by more than the deadlock threshold
Graded == [b \in AllBidsList(<<3>>) |-> IF b[1] = 1 THEN 500 ELSE IF b[1] = 2 THEN 505 ELSE 515]

\* the number of update calls a directly used model is followed for
UpdatesCap == IF Cardinality(times) = 1 THEN MaxSamples ELSE MaxUpdates

\* stored: the record of the counterpart found in storage_dir, if any
ScenariosOM ==
    { [domain |-> <<2, 2>>, profile |-> <<>>, times |-> {0, 500}, stored |-> <<>>],
      [domain |-> <<3>>, profile |-> <<Uniform(<<3>>, 500)>>, times |-> {100, 900, 1000},
       stored |-> <<>>],
      [domain |-> <<2, 1>>, profile |-> <<>>, times |-> {0, 500}, stored |-> <<>>],
      [domain |-> <<2, 2>>, profile |-> <<>>, times |-> {500}, stored |-> <<PartialRecord>>],
      [domain |-> <<3>>, profile |-> <<Graded>>, times |-> {500}, stored |-> <<>>],
      [domain |-> <<2>>, profile |-> <<Profile2(250, 700)>>, times |-> {0, 500},
       stored |-> <<ConcedingRecord>>] }

\* in this use `profile` is the optional our_utility_func: <<>> or <<f>>
InitOM ==
    /\ \E sc \in ScenariosOM :
          /\ domain = sc.domain
          /\ profile = sc.profile
          /\ times = sc.times
          /\ opponent_model = <<OpponentModel_init(sc.domain)>>
          /\ storage = [NoStorage EXCEPT !.model = sc.stored]
    /\ agent = "OpponentModel"
    /\ pc = "api"
    /\ clock = 0
    /\ last_received_bid = None
    /\ other = None
    /\ sent = NoAction
    /\ turn = "opp"
    /\ loaded = None

\* the import at the start of a session: load_from_json of the stored record
OM_Load ==
    /\ pc = "api" /\ loaded = None
    /\ opponent_model[1].offers = <<>>
    /\ storage.model # <<>>
    /\ opponent_model' = <<load_from_json(opponent_model[1], storage.model[1])>>
    /\ UNCHANGED <<config, pc, clock, last_received_bid, other, sent, turn, storage, loaded>>

OM_Update ==
    /\ pc = "api" /\ loaded = None
    /\ Len(opponent_model[1].offers) < UpdatesCap
    /\ \E bid \in AllBidsList(domain), t \in Readings :
          LET r == OpponentModel_update(opponent_model[1], bid, t, profile)
          IN  /\ opponent_model' = <<r.om>>
              /\ pc' = IF r.raised THEN "crashed" ELSE pc
              /\ clock' = t
    /\ UNCHANGED <<config, last_received_bid, other, sent, turn, storage, loaded>>

OM_RoundTrip ==
    /\ pc = "api" /\ loaded = None
    /\ opponent_model[1].offers # <<>>
    /\ loaded' = <<load_from_json(OpponentModel_init(domain), to_json(opponent_model[1]))>>
    /\ UNCHANGED <<config, pc, clock, opponent_model, last_received_bid, other, sent,
                   turn, storage>>

NextOM == OM_Load \/ OM_Update \/ OM_RoundTrip

SpecOM == InitOM /\ [][NextOM]_vars

----------------------------------------------------------------------------
(* Properties of the agents, checked under Spec *)

HasModel == opponent_model # None

FindBidOf(t) ==
    IF agent = "TemplateAgent4"
    THEN TemplateAgent4_find_bid(opponent_model, profile, domain, t)
    ELSE TemplateAgent_find_bid(opponent_model, profile, domain, t)

AcceptOf(bid, t) ==
    IF agent = "TemplateAgent4"
    THEN TemplateAgent4_accept_condition(bid, opponent_model, profile, domain, t)
    ELSE TemplateAgent_accept_condition(bid, opponent_model, profile, domain, t)

\* C1: each of the four classification flags, once true, is true in every
\* later state: no step takes a flag from true to false.
C1_FlagsOnlyRise ==
    [][HasModel =>
        /\ opponent_model' # None
        /\ opponent_model[1].is_conceder => opponent_model'[1].is_conceder
        /\ opponent_model[1].is_stubborn => opponent_model'[1].is_stubborn
        /\ opponent_model[1].in_deadlock => opponent_model'[1].in_deadlock
        /\ opponent_model[1].is_late_conceder => opponent_model'[1].is_late_conceder]_vars

\* the deadlock flag is still set after an update whose self-utility jumped,
\* which by itself would not set it
C1_Witness ==
    /\ HasModel
    /\ opponent_model[1].in_deadlock
    /\ LET us == opponent_model[1].my_utilities
       IN  Abs(us[Len(us)] - us[Len(us) - 1]) >= 10

\* the states in which the agent can be given the turn next, and so can call
\* accept_condition(last_received_bid) and find_bid at any later reading
Callable == pc = "running" /\ turn = "me"

\* C2: whenever the agent can be given the turn, at every progress it can
\* then read, every result find_bid can give is a complete bid of the domain,
\* never an exception; and every bid the agent has offered is a complete bid.
C2_FindBidReturnsBid ==
    /\ Callable =>
          \A t \in Readings : \A r \in FindBidOf(t) :
              r.ok /\ r.value \in AllBidsList(domain)
    /\ sent.type = "Offer" => sent.bid \in AllBidsList(domain)

\* TemplateAgent4 has offered a bid that is neither within the margin of the
\* search target nor worth 0.6 to it: the bid of the last, random fallback
C2_Witness ==
    /\ agent = "TemplateAgent4"
    /\ sent.type = "Offer"
    /\ profile[sent.bid] < 600
    /\ Abs(profile[sent.bid] - search_target(opponent_model, clock))
          > search_margin(opponent_model)
    /\ \A b \in AllBidsList(domain) :
          Abs(profile[b] - search_target(opponent_model, clock))
              > search_margin(opponent_model)

\* C3: in every state and at every progress, whatever the flags and the
\* profile are, accept_condition of an undefined bid returns false; and with
\* no bid received the agent answers its turn with an offer.
C3_UndefinedBidRejected ==
    /\ \A t \in times :
          /\ AcceptOf(None, t) # {}
          /\ \A r \in AcceptOf(None, t) : r.ok /\ r.value = FALSE
    /\ (last_received_bid = None /\ sent.type # "None") => sent.type = "Offer"

\* the agent moved first: it has answered YourTurn with an offer while no bid
\* was received
C3_Witness ==
    pc = "running" /\ last_received_bid = None /\ sent.type = "Offer"

\* C4: with the opponent flagged deadlocked and stubborn and not
\* late-conceding, at every progress above 0.9 accept_condition of a defined
\* bid returns true iff the bid's self-utility is at least 0.3, whatever the
\* planned counter-bid is; and the action sent in such a turn is an Accept
\* iff the received bid is worth at least 0.3.
C4_DeadlockOverride ==
    (agent = "TemplateAgent4" /\ pc = "running" /\ deadlock_override(opponent_model)) =>
        /\ \A t \in {t \in Readings : t > 900} : \A b \in AllBidsList(domain) :
              TemplateAgent4_accept_condition(b, opponent_model, profile, domain, t)
                  = {Returned(profile[b] >= 300)}
        /\ (clock > 900 /\ sent.type # "None" /\ last_received_bid # None) =>
              (sent.type = "Accept" <=> profile[last_received_bid] >= 300)

\* under the override the agent has rejected a bid worth less than 0.3 that
\* steps 4-5 could have accepted
C4_Witness ==
    /\ agent = "TemplateAgent4" /\ pc = "running"
    /\ deadlock_override(opponent_model)
    /\ clock > 900
    /\ last_received_bid # None
    /\ sent.type = "Offer"
    /\ profile[last_received_bid] < 300
    /\ \E planned \in AllBidsList(domain) :
          accept_decision_no_override(opponent_model, clock, profile[last_received_bid],
              get_target_utility(clock), profile[planned])

\* steps 4-5 of the claim for a bid worth u, a planned counter-bid worth
\* planned_u, at progress t
C5_Expected(t, u, planned_u) ==
    LET conceding == HasModel /\ opponent_model[1].is_conceder
        reservation == 600 - Mul(400, t) + (IF conceding THEN 50 ELSE 0)
    IN  IF u < reservation THEN FALSE
        ELSE IF conceding THEN u >= Mul(950, planned_u)
        ELSE u >= Max2(get_target_utility(t), Mul(850, planned_u))

\* C5: whenever the agent can be given the turn with a bid received, at
\* every progress it can then read at which the deadlock override does not
\* apply, the results of accept_condition of that bid are exactly those of
\* steps 4-5 over the counter-bids find_bid can plan: reject below the
\* reservation threshold, else compare with 0.95 x planned for a conceding
\* opponent and with max(target, 0.85 x planned) otherwise.
C5_AcceptSteps ==
    (Callable /\ last_received_bid # None) =>
        \A t \in Readings :
            ~(deadlock_override(opponent_model) /\ t > 900) =>
                AcceptOf(last_received_bid, t) =
                    {Returned(C5_Expected(t, profile[last_received_bid],
                                          profile[planned.value]))
                        : planned \in FindBidOf(t)}

\* against a conceding opponent, outside the override, the agent has accepted
\* a bid that is below the target utility
C5_Witness ==
    /\ agent = "TemplateAgent4" /\ pc = "running"
    /\ opponent_model[1].is_conceder
    /\ ~(deadlock_override(opponent_model) /\ clock > 900)
    /\ sent.type = "Accept"
    /\ profile[sent.bid] < get_target_utility(clock)

\* C6: whatever the agent accepts is worth at least the reservation
\* threshold 0.6 - 0.4 x progress, plus 0.05 against a conceding opponent:
\* this holds of the Accept it has sent, and of the received bid at every
\* progress at which accept_condition can return true for it.
C6_ReservationFloor ==
    LET bonus == IF HasModel /\ opponent_model[1].is_conceder THEN 50 ELSE 0
    IN  /\ sent.type = "Accept" => profile[sent.bid] >= 600 - Mul(400, clock) + bonus
        /\ (Callable /\ last_received_bid # None) =>
              \A t \in Readings :
                  Returned(TRUE) \in AcceptOf(last_received_bid, t) =>
                      profile[last_received_bid] >= 600 - Mul(400, t) + bonus

\* an acceptance that comes from the deadlock override
C6_Witness ==
    /\ agent = "TemplateAgent4"
    /\ sent.type = "Accept"
    /\ deadlock_override(opponent_model)
    /\ clock > 900

\* C12: on Finished, TemplateAgent4 exports the model to the record of the
\* counterpart it has identified; and in a session that starts with a record
\* of the counterpart in storage, the model after the first received offer is
\* the freshly constructed model with that record imported and then updated
\* with the offer.
C12_PersistenceLifecycle ==
    [][agent = "TemplateAgent4" =>
        /\ (pc = "running" /\ pc' = "terminated" /\ other # None) =>
              storage'.model = <<to_json(opponent_model[1])>>
        /\ (pc = "running" /\ storage.model # <<>> /\ HasModel
                /\ opponent_model[1].offers = <<>>
                /\ opponent_model'[1].offers # <<>>) =>
              opponent_model'[1] =
                  OpponentModel_update(
                      load_from_json(OpponentModel_init(domain), storage.model[1]),
                      opponent_model'[1].offers[1], clock', <<profile>>).om]_vars

\* a step in which the agent handles YourTurn
YourTurnStep == pc = "running" /\ turn = "me" /\ (turn' # turn \/ pc' = "crashed")

\* C16: each YourTurn makes the agent send exactly one action: an Accept of
\* the last received bid when accept_condition holds for it, otherwise an
\* Offer of a bid returned by find_bid; an Accept is sent only after an offer
\* of the counterpart has been received.
C16_OneActionPerTurn ==
    [][YourTurnStep =>
        /\ pc' = "running"
        /\ sent = NoAction
        /\ \/ /\ sent' = Accept(last_received_bid)
              /\ Returned(TRUE) \in AcceptOf(last_received_bid, clock')
           \/ /\ sent'.type = "Offer"
              /\ Returned(FALSE) \in AcceptOf(last_received_bid, clock')
              /\ Returned(sent'.bid) \in FindBidOf(clock')
        /\ sent'.type = "Accept" =>
              /\ last_received_bid # None
              /\ HasModel /\ opponent_model[1].offers # <<>>]_vars

\* an Accept of the last received bid has been sent
C16_Witness ==
    /\ sent = Accept(last_received_bid)
    /\ turn = "over"
    /\ last_received_bid # None

\* len(self.opponent_model.offers), 0 while the model does not exist
HistoryLen(model) == IF model = None THEN 0 ELSE Len(model[1].offers)

\* a step in which the agent handles the ActionDone of an Offer of the
\* counterpart
OfferReceivedStep == pc = "running" /\ turn = "opp" /\ turn' = "me"

\* C17: the model is updated once per received counterpart Offer and by
\* nothing else: an Offer adds one element to the history and one observation
\* to every issue estimator, whose counts equal the history length, and the
\* last history element is last_received_bid; every other event of a running
\* session leaves the model and last_received_bid unchanged.
C17_UpdatedOncePerOffer ==
    [][/\ OfferReceivedStep =>
              /\ HistoryLen(opponent_model') = HistoryLen(opponent_model) + 1
              /\ \A i \in Issues(domain) :
                    opponent_model'[1].issue_estimators[i].bids_received
                        = HistoryLen(opponent_model')
              /\ last_received_bid'
                    = opponent_model'[1].offers[HistoryLen(opponent_model')]
       /\ (pc = "running" /\ ~OfferReceivedStep) =>
              UNCHANGED <<opponent_model, last_received_bid>>]_vars

\* the model TemplateAgent4 consults in find_bid
Flags == opponent_model[1]

\* C19 as stated: the conceding, stubborn and deadlocked adjustments of
\* find_bid are applied in this order, each whenever its flag is set and on
\* top of the previous result, so that an opponent flagged conceding and
\* stubborn gets max(min(t + 0.05, 1) - 0.05, 0.7); a deadlocked opponent
\* gets max(0.55, target - 0.1) and margin 0.1.
C19_AdjustmentsInSequence ==
    (agent = "TemplateAgent4" /\ HasModel) =>
        \A t \in Readings :
            LET base == get_target_utility(t)
                a1 == IF Flags.is_conceder THEN Min2(base + 50, 1000) ELSE base
                a2 == IF Flags.is_stubborn THEN Max2(a1 - 50, 700) ELSE a1
                a3 == IF Flags.in_deadlock THEN Max2(550, a2 - 100) ELSE a2
            IN  /\ search_target(opponent_model, t) = a3
                /\ search_margin(opponent_model) = IF Flags.in_deadlock THEN 100 ELSE 50

\* C19 amended: the conceding adjustment takes precedence over the stubborn
\* one, which is applied only to an opponent not flagged conceding: the
\* target is min(t + 0.05, 1) for a conceding opponent, stubborn or not,
\* max(t - 0.05, 0.7) for a stubborn one that is not conceding, and t
\* otherwise; the deadlocked adjustment max(0.55, target - 0.1) with margin
\* 0.1 is then applied on top of that result whenever its flag is set.
C19_ConcederTakesPrecedence ==
    (agent = "TemplateAgent4" /\ HasModel) =>
        \A t \in Readings :
            LET base == get_target_utility(t)
                a2 == IF Flags.is_conceder THEN Min2(base + 50, 1000)
                      ELSE IF Flags.is_stubborn THEN Max2(base - 50, 700)
                      ELSE base
                a3 == IF Flags.in_deadlock THEN Max2(550, a2 - 100) ELSE a2
            IN  /\ search_target(opponent_model, t) = a3
                /\ search_margin(opponent_model) = IF Flags.in_deadlock THEN 100 ELSE 50

\* it is the agent's turn against an opponent flagged conceding and stubborn
\* and not deadlocked, for which the two orders give different targets
C19_Witness ==
    /\ agent = "TemplateAgent4" /\ Callable
    /\ Flags.is_conceder /\ Flags.is_stubborn /\ ~Flags.in_deadlock
    /\ \E t \in Readings :
          search_target(opponent_model, t)
              # Max2(Min2(get_target_utility(t) + 50, 1000) - 50, 700)

\* the bids of the sample S that find_bid keeps as candidates at progress t
CandidatesIn(S, t) ==
    {b \in S : Abs(profile[b] - search_target(opponent_model, t))
                    <= search_margin(opponent_model)}

\* the bids of the sample S2 that the fallback path keeps
FallbackIn(S2) == {b \in S2 : profile[b] >= 600}

\* C20: against an opponent flagged deadlocked, find_bid takes the fallback
\* path whether or not candidates were found, and it takes it too when no
\* candidate was found: if a bid of the second sample has self-utility 0.6 or
\* more, the result is one of those bids with maximal predicted utility;
\* otherwise it is an arbitrary bid of the domain.
C20_DeadlockFallback ==
    (agent = "TemplateAgent4" /\ Callable) =>
        \A t \in Readings : \A S \in Samples(domain), S2 \in Samples(domain) :
            (Flags.in_deadlock \/ CandidatesIn(S, t) = {}) =>
                LET results == find_bid_sampled(opponent_model, profile, domain, t, S, S2)
                IN  IF FallbackIn(S2) # {}
                    THEN /\ results # {}
                         /\ \A r \in results :
                               /\ r.ok
                               /\ r.value \in FallbackIn(S2)
                               /\ \A c \in FallbackIn(S2) :
                                     get_predicted_utility(Flags, c)
                                         <= get_predicted_utility(Flags, r.value)
                    ELSE results = {Returned(b) : b \in AllBidsList(domain)}

\* the opponent is flagged deadlocked, the first sample has candidates and
\* the second one a bid of self-utility 0.6 or more that is none of them
C20_Witness ==
    /\ agent = "TemplateAgent4" /\ Callable
    /\ Flags.in_deadlock
    /\ \E t \in Readings : \E S \in Samples(domain), S2 \in Samples(domain) :
          /\ CandidatesIn(S, t) # {}
          /\ FallbackIn(S2) # {}
          /\ FallbackIn(S2) \cap CandidatesIn(S, t) = {}

\* score_bid of the agent's state at progress t
ScoreAt(b, t) == score_bid(opponent_model, profile, b, t)

\* C21: against an opponent not flagged deadlocked, when a sampled bid has a
\* self-utility within the margin of the adjusted target, find_bid returns
\* one of those candidates, its score_bid is maximal among the candidates,
\* and no bid outside the margin is returned.
C21_BestCandidate ==
    (agent = "TemplateAgent4" /\ Callable /\ ~Flags.in_deadlock) =>
        \A t \in Readings : \A S \in Samples(domain), S2 \in Samples(domain) :
            CandidatesIn(S, t) # {} =>
                LET results == find_bid_sampled(opponent_model, profile, domain, t, S, S2)
                IN  /\ results # {}
                    /\ \A r \in results :
                          /\ r.ok
                          /\ r.value \in S
                          /\ Abs(profile[r.value] - search_target(opponent_model, t))
                                <= search_margin(opponent_model)
                          /\ \A c \in CandidatesIn(S, t) :
                                ScoreAt(c, t) <= ScoreAt(r.value, t)

\* the opponent is not flagged deadlocked and a sample holds two candidates
\* of different scores
C21_Witness ==
    /\ agent = "TemplateAgent4" /\ Callable /\ ~Flags.in_deadlock
    /\ \E t \in Readings : \E S \in Samples(domain) :
          \E b \in CandidatesIn(S, t), c \in CandidatesIn(S, t) :
              ScoreAt(b, t) < ScoreAt(c, t)

\* five times d, for d = avg(last 5 of us) - avg(first 5 of us)
FiveTimesD(us) ==
    (us[Len(us) - 4] + us[Len(us) - 3] + us[Len(us) - 2] + us[Len(us) - 1] + us[Len(us)])
        - (us[1] + us[2] + us[3] + us[4] + us[5])

\* C23: an update with the self-utility function that leaves at least 10
\* self-utility samples sets is_stubborn when d = avg(last 5) - avg(first 5)
\* is below 0.1, zero and negative d included; with fewer than 10 samples, or
\* with d of 0.1 or more, the update does not set the flag.
C23_StubbornClassifier ==
    [][(agent = "TemplateAgent4" /\ OfferReceivedStep) =>
        LET us == opponent_model'[1].my_utilities
            below == Len(us) >= 10 /\ FiveTimesD(us) < 500
        IN  /\ Len(us) = Len(Flags.my_utilities) + 1
            /\ below => opponent_model'[1].is_stubborn
            /\ (~Flags.is_stubborn /\ ~below) => ~opponent_model'[1].is_stubborn]_vars

\* the flag is set by a d between 0.05 and 0.1
C23_Witness ==
    /\ agent = "TemplateAgent4" /\ HasModel
    /\ Flags.is_stubborn
    /\ Len(Flags.my_utilities) = 10
    /\ FiveTimesD(Flags.my_utilities) >= 250
    /\ FiveTimesD(Flags.my_utilities) < 500

----------------------------------------------------------------------------
(* Claims about OpponentModel used directly, checked under SpecOM *)

OM == opponent_model[1]

C8_ConsistencyScore ==
    [][LET k == Len(OM.offers)
           k2 == Len(OM.offers')
           score == OM.consistency_score
           score2 == OM.consistency_score'
       IN  /\ score2 >= score
           /\ k2 >= 1 => score2 <= (k2 - 1) * Scale
           /\ (k = 0 /\ k2 = 1) => score2 = 0
           /\ (k >= 1 /\ k2 = k + 1) =>
                 score2 - score =
                     Div(Cardinality({i \in Issues(domain) :
                            OM.offers'[k2][i] = OM.offers[k][i]}),
                         Len(domain))]_vars

\* three or more updates of which some repeated the previous bid on one
\* issue only: the score is positive, not whole, and below k - 1
C8_Witness ==
    /\ Len(OM.offers) >= 3
    /\ OM.consistency_score > 0
    /\ OM.consistency_score % Scale # 0
    /\ OM.consistency_score < (Len(OM.offers) - 1) * Scale

C10_RoundTrip ==
    loaded # None =>
        \A i \in Issues(domain) :
            LET est == OM.issue_estimators[i]
                got == loaded[1].issue_estimators[i]
            IN  /\ got.weight = est.weight
                /\ \A v \in DOMAIN est.value_trackers :
                      /\ v \in DOMAIN got.value_trackers
                      /\ got.value_trackers[v].count = est.value_trackers[v].count

\* C11: load_from_json of a record with issue ids or value ids the domain
\* does not have completes without error and leaves exactly one estimator
\* per domain issue; an issue the record does not name is left as it was, and
\* the entries with known keys are restored: the weight of every known issue
\* and the count of every known value.
C11_PartialImport ==
    [][(OM.offers = <<>> /\ storage.model # <<>>
            /\ opponent_model' # opponent_model /\ opponent_model'[1].offers = <<>>) =>
        LET data == storage.model[1].issue_weights
            ests == opponent_model'[1].issue_estimators
        IN  /\ pc' = "api"
            /\ DOMAIN ests = Issues(domain)
            /\ \A i \in Issues(domain) :
                  IF i \notin DOMAIN data
                  THEN ests[i] = OM.issue_estimators[i]
                  ELSE /\ ests[i].weight = data[i].weight
                       /\ \A v \in 1 .. domain[i] :
                             StrOf(v) \in DOMAIN data[i].value_counts =>
                                 /\ v \in DOMAIN ests[i].value_trackers
                                 /\ ests[i].value_trackers[v].count
                                        = data[i].value_counts[StrOf(v)]]_vars

\* the damping of line 223 fired in the last update of value v of estimator est
DampedLast(est, v) ==
    LET recent == LastK(Series(est, v), 3)
    IN  Len(recent) >= 2 /\ recent[Len(recent)] - recent[1] > 300

\* C13: whenever every observation of an issue is the same value v and the
\* time-span damping did not fire in the last update, the issue's weight is 1
\* and the utility of v is 1; in a single-issue domain the bid of v is then
\* predicted 1 and every bid of a value never observed is predicted 0 (as
\* after five updates with v1 at progress 0.1 .. 0.5 in a 3-value domain).
C13_SameValueWeightOne ==
    \A i \in Issues(domain) :
        LET est == OM.issue_estimators[i]
            v == OM.offers[1][i]
        IN  (/\ OM.offers # <<>>
             /\ \A k \in DOMAIN OM.offers : OM.offers[k][i] = v
             /\ ~DampedLast(est, v)) =>
                /\ est.weight = 1000
                /\ IssueEstimator_get_value_utility(est, v) = 1000
                /\ Len(domain) = 1 =>
                      \A b \in AllBidsList(domain) :
                          get_predicted_utility(OM, b) = IF b[1] = v THEN 1000 ELSE 0

\* issue a has had the same value in every bid and issue b a value that
\* changed from each bid to the next
SameAndAlternating(a, b) ==
    /\ \A k \in DOMAIN OM.offers : OM.offers[k][a] = OM.offers[1][a]
    /\ \A k \in 2 .. Len(OM.offers) : OM.offers[k][b] # OM.offers[k - 1][b]

\* C14: in a domain of 2 issues with 2 values each, after 4 or more updates
\* that all gave issue A the same value and alternated the value of issue B,
\* the weight of A is greater than the weight of B, whatever the
\* non-decreasing progress values were.
C14_StableIssueWeighsMore ==
    (domain = <<2, 2>> /\ Len(OM.offers) >= 4) =>
        \A a, b \in Issues(domain) :
            (a # b /\ SameAndAlternating(a, b)) =>
                OM.issue_estimators[a].weight > OM.issue_estimators[b].weight

\* five such updates, the last ones late enough for the damping to have cut
\* the weight of the stable issue, the other issue's weight being positive
C14_Witness ==
    /\ domain = <<2, 2>> /\ Len(OM.offers) = 5 /\ pc = "api"
    /\ SameAndAlternating(1, 2)
    /\ OM.issue_estimators[1].weight < 1000
    /\ OM.issue_estimators[2].weight > 0

\* the last 6 self-utility samples of us exist and every two consecutive
\* ones differ by less than 0.01
CalmWindow(us) ==
    /\ Len(us) >= 6
    /\ \A k \in Len(us) - 4 .. Len(us) : Abs(us[k] - us[k - 1]) < 10

\* C15: after an update that records a self-utility, in_deadlock is true if
\* at least 6 samples exist and the 5 consecutive differences among the last
\* 6 are all below 0.01; if the flag was false and one of those differences
\* is 0.01 or more, or fewer than 6 samples exist, it is still false.
C15_DeadlockClassifier ==
    [][(profile # <<>> /\ Len(opponent_model'[1].offers) = Len(OM.offers) + 1) =>
        LET us == opponent_model'[1].my_utilities
        IN  /\ CalmWindow(us) => opponent_model'[1].in_deadlock
            /\ (~OM.in_deadlock /\ ~CalmWindow(us)) => ~opponent_model'[1].in_deadlock]_vars

\* the flag is set over a window whose utilities changed, by less than 0.01
C15_Witness ==
    /\ profile # <<>>
    /\ OM.in_deadlock
    /\ Len(OM.my_utilities) = 6
    /\ \E k \in 2 .. 6 : OM.my_utilities[k] # OM.my_utilities[k - 1]

\* C18: IssueEstimator.update completes without a division by zero for every
\* issue with a non-empty value set and every observation count, an issue
\* with exactly one value included.
C18_WeightGuarded ==
    \A i \in Issues(domain), t \in Readings :
        \A v \in 1 .. domain[i] :
            ~IssueEstimator_update(OM.issue_estimators[i], v, t).raised

\* the per-value formula: ((c+1)^(1-w) - 1) / ((M+1)^(1-w) - 1) * 1/(1+dt)
\* if w < 1, and 1 otherwise
PerValueFormula(c, M, w, dt) ==
    IF w < 1000
    THEN Mul(Div(Pow(c + 1, 1000 - w) - 1000, Pow(M + 1, 1000 - w) - 1000),
             Div(1000, 1000 + dt))
    ELSE 1000

\* C22: after every update at progress p, for every issue and every value
\* recorded for it, the stored utility equals the per-value formula
\* evaluated with the issue's current weight, its current maximum count, the
\* value's count and the time p - last_time since the value was last seen.
C22_GlobalRecompute ==
    [][Len(opponent_model'[1].offers) = Len(OM.offers) + 1 =>
        \A i \in Issues(domain) :
            LET est == opponent_model'[1].issue_estimators[i]
            IN  \A v \in DOMAIN est.value_trackers :
                    est.value_trackers[v].utility =
                        PerValueFormula(est.value_trackers[v].count, est.max_value_count,
                                        est.weight, clock' - est.value_trackers[v].last_time)]_vars

====
